---- MODULE Spec2Model ----
(***************************************************************************)
(* The Server-Sent Events endpoint GET /api/events that registerRoutes     *)
(* installs (src/unnamed/part_010), and the two pages of the client that   *)
(* receive data from the server, ServerSentEventsDemo (sse-demo.tsx) and   *)
(* PollingDemo (polling-demo.tsx), as state machines.  Each of the three   *)
(* has its own variables and its own specifications, which leave the       *)
(* variables of the other two as they are; the pages are described where   *)
(* their actions are defined, the server here.                             *)
(*                                                                         *)
(* One Node.js process serves the connections 1..MaxConns.  JavaScript     *)
(* runs every callback to completion on one event loop: `running` names    *)
(* the connection whose callback is executing (0 = the loop is between     *)
(* callbacks) and `pc` the statement it is about to execute.  A callback   *)
(* is dispatched only when running = 0, and time does not pass while one   *)
(* runs.  Every statement of the route handler, of the two interval        *)
(* callbacks and of the 'close' listener is one step.                      *)
(*                                                                         *)
(* Time is counted in ticks of TickMs milliseconds.  A timer fires in the  *)
(* tick in which it falls due; timers that fall due in the same tick fire  *)
(* in either order.                                                        *)
(***************************************************************************)
EXTENDS Integers, Sequences, FiniteSets, TLC

VARIABLES
    now,              \* the clock, in ticks
    running,          \* connection whose callback runs, 0 when the loop is idle
    pc,               \* next statement of the running callback, "idle" if none
    accepted,         \* number of requests to /api/events received so far
    closed,           \* closed[c]: 'close' has been emitted on req of c
    resHeaders,       \* resHeaders[c]: headers set on res by res.setHeader
    headersSent,      \* headersSent[c]: the head has been flushed to the peer
    wireHeaders,      \* wireHeaders[c]: the headers that were flushed
    resBody,          \* resBody[c]: the text res.write has appended so far
    counter,          \* counter[cell]: the `let counter` of a handler call
    counterInterval,  \* counterInterval[c]: the 1 s interval timer
    randomInterval,   \* randomInterval[c]: the 2 s interval timer
    random,           \* `const random` of the running random callback
    closeListener,    \* closeListener[c]: req.on('close', ...) is registered
    openedAt          \* openedAt[c]: the tick in which the request arrived

\* The page ServerSentEventsDemo (src/client/src/pages/sse-demo.tsx).
VARIABLES
    eventSource,      \* the EventSource of the effect that is set up, 0 if none
    created,          \* number of EventSource objects constructed so far
    readyState,       \* readyState[s] of EventSource s
    dispatching,      \* the event the browser is delivering to the listeners
    connectionStatus, \* useState('Disconnected')
    viewCounter,      \* useState(0), `counter` of the component
    randomNumber,     \* useState(0)
    sseError,         \* useState(null), `error` of the component
    notifications,    \* the open and error events fired so far, in order
    lastData,         \* lastData[type]: data of the last event of that type
    uncaught          \* the exceptions that left a listener uncaught

\* The page PollingDemo (src/client/src/pages/polling-demo.tsx).
VARIABLES
    pollPhase,        \* "initial", "mounted" or "unmounted"
    isMounted,        \* `let isMounted` of the effect
    interval,         \* `const interval`, the 2 s interval timer
    requests,         \* the calls of fetch("/api/polling") made so far
    pollData,         \* useState(null), `data` of the component
    loading,          \* useState(false)
    pollError,        \* useState(null), `error` of the component
    mountedAt         \* the tick in which the component mounted

\* The Router of the client (src/unnamed/part_000) and the routes of the
\* server (registerRoutes, src/unnamed/part_010).
VARIABLES
    location,         \* the path the browser is at
    page,             \* the component that the Switch of Router renders
    routed            \* <<k, d>>: the k-th request of the polling page has
                      \* reached the server, with the outcome d of routing it

\* The stream between the EventSource of the page and the server.
VARIABLES
    attached,         \* the connection that last served the EventSource
    up,               \* the transport to that connection is up
    delivered         \* number of blocks of that connection read so far

\* The state of the server apart from the clock.
routeVars == <<running, pc, accepted, closed, resHeaders, headersSent,
               wireHeaders, resBody, counter, counterInterval,
               randomInterval, random, closeListener, openedAt>>

serverVars == <<now, routeVars>>

pollVars == <<pollPhase, isMounted, interval, requests, pollData, loading,
              pollError, mountedAt>>

sseVars == <<eventSource, created, readyState, dispatching, connectionStatus,
             viewCounter, randomNumber, sseError, notifications, lastData,
             uncaught>>

routingVars == <<location, page, routed>>

linkVars == <<attached, up, delivered>>

clientVars == <<sseVars, pollVars, routingVars, linkVars>>

\* What an action of the one page leaves alone besides the other page.
besidesSSE == <<serverVars, pollVars, routingVars, linkVars>>
besidesPolling == <<serverVars, sseVars, routingVars, linkVars>>

vars == <<serverVars, clientVars>>

(***************************************************************************)
(* Bounds of the model.                                                    *)
(***************************************************************************)
MaxConns == 2
MaxTime == 5
MaxCadenceTime == 24
MaxLiveTime == 8
RandomResolution == 1000

Conns == 1..MaxConns

(***************************************************************************)
(* Program constants.                                                      *)
(***************************************************************************)
CounterDelayMs == 1000
\* A tick is half the shorter of the two timer periods.
TickMs == CounterDelayMs \div 2
\* Variant: the random timer is given the period of the counter timer.
RandomDelaySameAsCounter == CounterDelayMs
RandomDelayMs == 2000
RandomRange == 100

\* Variant: the response is declared as JSON instead of an event stream.
JSONContentType == "application/json"
EventStreamContentType == "text/event-stream"
CacheControlValue == "no-cache"
ConnectionValue == "keep-alive"
ConnectedMessage == "Connected to event stream"

HeaderNames == {"Content-Type", "Cache-Control", "Connection"}
NoHeaders == [h \in HeaderNames |-> ""]

(***************************************************************************)
(* JSON.stringify of an object with one field, as the tokens of its text.  *)
(***************************************************************************)
JSONString(s) == "\"" \o s \o "\""
JSONNumber(n) == ToString(n)
JSONstringify(key, valueText) == <<"{", JSONString(key), ":", valueText, "}">>

(***************************************************************************)
(* The arguments of the res.write calls: a chunk is the sequence of the    *)
(* tokens of the written text, "\n" being one token.                       *)
(***************************************************************************)
EventLine(name) == <<"event: ", name, "\n">>
\* Variant: the data line is ended by one "\n", without the blank line.
DataTerminatorOneNewline == <<"\n">>
DataTerminator == <<"\n", "\n">>
DataLine(json) == <<"data: ">> \o json \o DataTerminator

ConnectedPayload == JSONstringify("message", JSONString(ConnectedMessage))
CounterPayload(n) == JSONstringify("count", JSONNumber(n))
RandomPayload(n) == JSONstringify("number", JSONNumber(n))

(***************************************************************************)
(* Math.random() returns k / RandomResolution for a k of RandomDraws;      *)
(* Math.floor(Math.random() * 100) is then (k * 100) \div RandomResolution *)
(***************************************************************************)
RandomDraws == {0, RandomResolution - 1}
\* Variant: the wider range of the tutorial's example, Math.random() * 10000.
RandomSampleWide(k) == (k * RandomRange * RandomRange) \div RandomResolution
RandomSample(k) == (k * RandomRange) \div RandomResolution

(***************************************************************************)
(* Timers.  setInterval(cb, ms) called at `now` is due ms later and, when  *)
(* it fires, is due again ms after that; clearInterval deactivates it.     *)
(***************************************************************************)
NoTimer == [active |-> FALSE, due |-> 0]
Ticks(ms) == ms \div TickMs
SetInterval(ms) == [active |-> TRUE, due |-> now + Ticks(ms)]
\* Variant: the timer does not repeat (setTimeout in place of setInterval).
FiresOnce(t, ms) == [t EXCEPT !.active = FALSE]
Reschedule(t, ms) == [t EXCEPT !.due = now + Ticks(ms)]
ClearInterval(t) == [t EXCEPT !.active = FALSE]
Due(t) == t.active /\ t.due <= now

\* The variable that the closure of connection c's handler call captured.
\* Variant: one module-level counter shared by all handler calls.
SharedCounterCell(c) == 1
CounterCell(c) == c

\* counter++
\* Variant: the increment is missing.
CounterNotIncremented(n) == n
CounterIncrement(n) == n + 1

LoopIdle == running = 0 /\ pc = "idle"
At(c, label) == running = c /\ pc = label
Goto(c, label) == running' = c /\ pc' = label
Return == running' = 0 /\ pc' = "idle"

\* The text of a response body is kept as its lines: `lines` are the lines
\* that a "\n" has ended, `rest` is the text after the last "\n".
EmptyText == [lines |-> <<>>, rest |-> <<>>]
AppendToken(text, tok) ==
    IF tok = "\n"
    THEN [lines |-> Append(text.lines, text.rest), rest |-> <<>>]
    ELSE [lines |-> text.lines, rest |-> Append(text.rest, tok)]

RECURSIVE AppendText(_, _)
AppendText(text, chunk) ==
    IF chunk = <<>> THEN text
    ELSE AppendText(AppendToken(text, Head(chunk)), Tail(chunk))

\* res.write(chunk): the first write flushes the head with the headers set
\* so far, then the chunk is appended to the body.
ResWrite(c, chunk) ==
    /\ resBody' = [resBody EXCEPT ![c] = AppendText(@, chunk)]
    /\ headersSent' = [headersSent EXCEPT ![c] = TRUE]
    /\ wireHeaders' = [wireHeaders EXCEPT
                         ![c] = IF headersSent[c] THEN @ ELSE resHeaders[c]]

\* res.setHeader(name, value)
ResSetHeader(c, name, value) ==
    resHeaders' = [resHeaders EXCEPT ![c][name] = value]

(***************************************************************************)
(* The page ServerSentEventsDemo after its first render, lines 11-14 of    *)
(* sse-demo.tsx.  The effect of lines 16-59 runs when the component mounts *)
(* and its cleanup when it unmounts; under React.StrictMode the effect is  *)
(* set up, cleaned up and set up again on the same component.  MaxMounts   *)
(* bounds the number of set-ups, each of which constructs an EventSource.  *)
(***************************************************************************)
MaxMounts == 2
MaxNotifications == 4

Sources == 1..MaxMounts
Null == "null"
NoEvent == [src |-> 0, type |-> "", data |-> <<>>]
NoData == <<"(none)">>

SSEInit ==
    /\ eventSource = 0
    /\ created = 0
    /\ readyState = [s \in Sources |-> "NONE"]
    /\ dispatching = NoEvent
    /\ connectionStatus = "Disconnected"
    /\ viewCounter = 0
    /\ randomNumber = 0
    /\ sseError = Null
    /\ notifications = <<>>
    /\ lastData = [t \in {"connected", "counter", "random"} |-> NoData]
    /\ uncaught = {}

(***************************************************************************)
(* The page PollingDemo after its first render, lines 7-9 of               *)
(* polling-demo.tsx, before its effect has run.                            *)
(***************************************************************************)
PollInit ==
    /\ pollPhase = "initial"
    /\ isMounted = FALSE
    /\ interval = NoTimer
    /\ requests = <<>>
    /\ pollData = 0
    /\ loading = FALSE
    /\ pollError = Null
    /\ mountedAt = 0

(***************************************************************************)
(* Router, lines 14-24 of part_000: the Switch renders the first Route     *)
(* whose path is the location, and the Route without a path if there is no *)
(* such Route.  The application is loaded at "/".                          *)
(***************************************************************************)
Routes ==
    <<[path |-> "/", component |-> "Home"],
      [path |-> "/components", component |-> "ComponentsShowcase"],
      [path |-> "/code-example", component |-> "CodeExample"],
      [path |-> "/polling-demo", component |-> "PollingDemo"]>>
Fallback == "NotFound"

Matching(path) == {i \in 1..Len(Routes) : Routes[i].path = path}
Switch(path) ==
    IF Matching(path) = {} THEN Fallback
    ELSE Routes[CHOOSE i \in Matching(path) :
                    \A j \in Matching(path) : i <= j].component

\* The paths that the documentation and the navigation of the site name.
Paths == {"/", "/components", "/code-example", "/polling-demo", "/sse-demo"}

(***************************************************************************)
(* registerRoutes, lines 5-44 of part_010: the routes it installs on app.  *)
(* A request that no route matches is passed on to what is installed on    *)
(* app after registerRoutes.                                               *)
(***************************************************************************)
ServerRoutes == {[method |-> "GET", path |-> "/api/events"]}
Dispatch(method, path) ==
    IF [method |-> method, path |-> path] \in ServerRoutes
    THEN "handler" ELSE "next"

RoutingInit ==
    /\ location = "/"
    /\ page = Switch("/")
    /\ routed = {}

LinkInit ==
    /\ attached = 0
    /\ up = FALSE
    /\ delivered = 0

Init ==
    /\ SSEInit
    /\ PollInit
    /\ RoutingInit
    /\ LinkInit
    /\ now = 0
    /\ running = 0
    /\ pc = "idle"
    /\ accepted = 0
    /\ closed = [c \in Conns |-> FALSE]
    /\ resHeaders = [c \in Conns |-> NoHeaders]
    /\ headersSent = [c \in Conns |-> FALSE]
    /\ wireHeaders = [c \in Conns |-> NoHeaders]
    /\ resBody = [c \in Conns |-> EmptyText]
    /\ counter = [c \in Conns |-> 0]
    /\ counterInterval = [c \in Conns |-> NoTimer]
    /\ randomInterval = [c \in Conns |-> NoTimer]
    /\ random = 0
    /\ closeListener = [c \in Conns |-> FALSE]
    /\ openedAt = [c \in Conns |-> 0]

(***************************************************************************)
(* The route handler, lines 7-39.                                          *)
(***************************************************************************)
\* A request arrives and the handler runs line 9.
Accept(c) ==
    /\ LoopIdle
    /\ c = accepted + 1
    /\ accepted' = c
    /\ openedAt' = [openedAt EXCEPT ![c] = now]
    /\ ResSetHeader(c, "Content-Type", EventStreamContentType)
    /\ Goto(c, "L10")
    /\ UNCHANGED <<now, closed, headersSent, wireHeaders, resBody, counter,
                   counterInterval, randomInterval, random, closeListener>>
    /\ UNCHANGED clientVars

SetCacheControl(c) ==
    /\ At(c, "L10")
    /\ ResSetHeader(c, "Cache-Control", CacheControlValue)
    /\ Goto(c, "L11")
    /\ UNCHANGED <<now, accepted, closed, headersSent, wireHeaders, resBody,
                   counter, counterInterval, randomInterval, random,
                   closeListener, openedAt>>
    /\ UNCHANGED clientVars

SetConnection(c) ==
    /\ At(c, "L11")
    /\ ResSetHeader(c, "Connection", ConnectionValue)
    /\ Goto(c, "L14")
    /\ UNCHANGED <<now, accepted, closed, headersSent, wireHeaders, resBody,
                   counter, counterInterval, randomInterval, random,
                   closeListener, openedAt>>
    /\ UNCHANGED clientVars

\* Variant: the handler skips lines 14-15 and writes no `connected` event.
HandshakeOmitted(c) ==
    /\ At(c, "L14")
    /\ Goto(c, "L18")
    /\ UNCHANGED <<now, accepted, closed, resHeaders, headersSent,
                   wireHeaders, resBody, counter, counterInterval,
                   randomInterval, random, closeListener, openedAt>>
    /\ UNCHANGED clientVars

WriteConnectedEvent(c) ==
    /\ At(c, "L14")
    /\ ResWrite(c, EventLine("connected"))
    /\ Goto(c, "L15")
    /\ UNCHANGED <<now, accepted, closed, resHeaders, counter,
                   counterInterval, randomInterval, random, closeListener,
                   openedAt>>
    /\ UNCHANGED clientVars

WriteConnectedData(c) ==
    /\ At(c, "L15")
    /\ ResWrite(c, DataLine(ConnectedPayload))
    /\ Goto(c, "L18")
    /\ UNCHANGED <<now, accepted, closed, resHeaders, counter,
                   counterInterval, randomInterval, random, closeListener,
                   openedAt>>
    /\ UNCHANGED clientVars

InitCounter(c) ==
    /\ At(c, "L18")
    /\ counter' = [counter EXCEPT ![CounterCell(c)] = 0]
    /\ Goto(c, "L21")
    /\ UNCHANGED <<now, accepted, closed, resHeaders, headersSent,
                   wireHeaders, resBody, counterInterval, randomInterval,
                   random, closeListener, openedAt>>
    /\ UNCHANGED clientVars

StartCounterInterval(c) ==
    /\ At(c, "L21")
    /\ counterInterval' = [counterInterval EXCEPT
                             ![c] = SetInterval(CounterDelayMs)]
    /\ Goto(c, "L28")
    /\ UNCHANGED <<now, accepted, closed, resHeaders, headersSent,
                   wireHeaders, resBody, counter, randomInterval, random,
                   closeListener, openedAt>>
    /\ UNCHANGED clientVars

StartRandomInterval(c) ==
    /\ At(c, "L28")
    /\ randomInterval' = [randomInterval EXCEPT
                            ![c] = SetInterval(RandomDelayMs)]
    /\ Goto(c, "L35")
    /\ UNCHANGED <<now, accepted, closed, resHeaders, headersSent,
                   wireHeaders, resBody, counter, counterInterval, random,
                   closeListener, openedAt>>
    /\ UNCHANGED clientVars

\* Line 35 registers the listener; the handler then returns.
RegisterClose(c) ==
    /\ At(c, "L35")
    /\ closeListener' = [closeListener EXCEPT ![c] = TRUE]
    /\ Return
    /\ UNCHANGED <<now, accepted, closed, resHeaders, headersSent,
                   wireHeaders, resBody, counter, counterInterval,
                   randomInterval, random, openedAt>>
    /\ UNCHANGED clientVars

(***************************************************************************)
(* The callback of counterInterval, lines 21-25.                           *)
(***************************************************************************)
\* The timer fires and the callback runs line 22.
CounterFire(c) ==
    /\ LoopIdle
    /\ Due(counterInterval[c])
    /\ counterInterval' = [counterInterval EXCEPT
                             ![c] = Reschedule(@, CounterDelayMs)]
    /\ counter' = [counter EXCEPT ![CounterCell(c)] = CounterIncrement(@)]
    /\ Goto(c, "L23")
    /\ UNCHANGED <<now, accepted, closed, resHeaders, headersSent,
                   wireHeaders, resBody, randomInterval, random,
                   closeListener, openedAt>>
    /\ UNCHANGED clientVars

CounterWriteEvent(c) ==
    /\ At(c, "L23")
    /\ ResWrite(c, EventLine("counter"))
    /\ Goto(c, "L24")
    /\ UNCHANGED <<now, accepted, closed, resHeaders, counter,
                   counterInterval, randomInterval, random, closeListener,
                   openedAt>>
    /\ UNCHANGED clientVars

CounterWriteData(c) ==
    /\ At(c, "L24")
    /\ ResWrite(c, DataLine(CounterPayload(counter[CounterCell(c)])))
    /\ Return
    /\ UNCHANGED <<now, accepted, closed, resHeaders, counter,
                   counterInterval, randomInterval, random, closeListener,
                   openedAt>>
    /\ UNCHANGED clientVars

(***************************************************************************)
(* The callback of randomInterval, lines 28-32.                            *)
(***************************************************************************)
\* Variant: the random callback increments the counter of the connection too.
RandomFireCountsToo(c) ==
    /\ LoopIdle
    /\ Due(randomInterval[c])
    /\ randomInterval' = [randomInterval EXCEPT
                            ![c] = Reschedule(@, RandomDelayMs)]
    /\ \E k \in RandomDraws : random' = RandomSample(k)
    /\ counter' = [counter EXCEPT ![CounterCell(c)] = CounterIncrement(@)]
    /\ Goto(c, "L30")
    /\ UNCHANGED <<now, accepted, closed, resHeaders, headersSent,
                   wireHeaders, resBody, counterInterval, closeListener,
                   openedAt>>
    /\ UNCHANGED clientVars

\* The timer fires and the callback runs line 29.
RandomFire(c) ==
    /\ LoopIdle
    /\ Due(randomInterval[c])
    /\ randomInterval' = [randomInterval EXCEPT
                            ![c] = Reschedule(@, RandomDelayMs)]
    /\ \E k \in RandomDraws : random' = RandomSample(k)
    /\ Goto(c, "L30")
    /\ UNCHANGED <<now, accepted, closed, resHeaders, headersSent,
                   wireHeaders, resBody, counter, counterInterval,
                   closeListener, openedAt>>
    /\ UNCHANGED clientVars

RandomWriteEvent(c) ==
    /\ At(c, "L30")
    /\ ResWrite(c, EventLine("random"))
    /\ Goto(c, "L31")
    /\ UNCHANGED <<now, accepted, closed, resHeaders, counter,
                   counterInterval, randomInterval, random, closeListener,
                   openedAt>>
    /\ UNCHANGED clientVars

\* Line 31; `random` goes out of scope when the callback returns.
RandomWriteData(c) ==
    /\ At(c, "L31")
    /\ ResWrite(c, DataLine(RandomPayload(random)))
    /\ random' = 0
    /\ Return
    /\ UNCHANGED <<now, accepted, closed, resHeaders, counter,
                   counterInterval, randomInterval, closeListener, openedAt>>
    /\ UNCHANGED clientVars

(***************************************************************************)
(* The 'close' listener, lines 35-38.  The framework emits 'close' on req  *)
(* when the peer has disconnected; that emission is how, and when, the     *)
(* server learns of the disconnect.                                        *)
(***************************************************************************)
\* Variant: the listener does not clear counterInterval.
CloseKeepsCounterInterval(c) ==
    /\ LoopIdle
    /\ closeListener[c]
    /\ ~closed[c]
    /\ closed' = [closed EXCEPT ![c] = TRUE]
    /\ Goto(c, "L37")
    /\ UNCHANGED <<now, accepted, resHeaders, headersSent, wireHeaders,
                   resBody, counter, counterInterval, randomInterval, random,
                   closeListener, openedAt>>
    /\ UNCHANGED clientVars

\* 'close' is emitted and the listener runs line 36.
CloseClearCounter(c) ==
    /\ LoopIdle
    /\ closeListener[c]
    /\ ~closed[c]
    /\ closed' = [closed EXCEPT ![c] = TRUE]
    /\ counterInterval' = [counterInterval EXCEPT ![c] = ClearInterval(@)]
    /\ Goto(c, "L37")
    /\ UNCHANGED <<now, accepted, resHeaders, headersSent, wireHeaders,
                   resBody, counter, randomInterval, random, closeListener,
                   openedAt>>
    /\ UNCHANGED clientVars

\* Variant: the listener does not clear randomInterval.
CloseKeepsRandomInterval(c) ==
    /\ At(c, "L37")
    /\ Return
    /\ UNCHANGED <<now, accepted, closed, resHeaders, headersSent,
                   wireHeaders, resBody, counter, counterInterval,
                   randomInterval, random, closeListener, openedAt>>
    /\ UNCHANGED clientVars

CloseClearRandom(c) ==
    /\ At(c, "L37")
    /\ randomInterval' = [randomInterval EXCEPT ![c] = ClearInterval(@)]
    /\ Return
    /\ UNCHANGED <<now, accepted, closed, resHeaders, headersSent,
                   wireHeaders, resBody, counter, counterInterval, random,
                   closeListener, openedAt>>
    /\ UNCHANGED clientVars

(***************************************************************************)
(* The clock.  A tick passes only between callbacks, only when every timer *)
(* due in the current tick has fired, and only while something can still   *)
(* happen (a timer is active or a request can still arrive).               *)
(***************************************************************************)
SomethingPending(limit) ==
    \/ accepted < limit
    \/ \E c \in Conns : counterInterval[c].active \/ randomInterval[c].active

Tick(horizon, limit) ==
    /\ LoopIdle
    /\ now < horizon
    /\ SomethingPending(limit)
    /\ \A c \in Conns : ~Due(counterInterval[c]) /\ ~Due(randomInterval[c])
    /\ now' = now + 1
    /\ UNCHANGED <<running, pc, accepted, closed, resHeaders, headersSent,
                   wireHeaders, resBody, counter, counterInterval,
                   randomInterval, random, closeListener, openedAt>>
    /\ UNCHANGED clientVars

Handler(c) ==
    \/ SetCacheControl(c)
    \/ SetConnection(c)
    \/ WriteConnectedEvent(c)
    \/ WriteConnectedData(c)
    \/ InitCounter(c)
    \/ StartCounterInterval(c)
    \/ StartRandomInterval(c)
    \/ RegisterClose(c)

Callbacks(c) ==
    \/ CounterFire(c)
    \/ CounterWriteEvent(c)
    \/ CounterWriteData(c)
    \/ RandomFire(c)
    \/ RandomWriteEvent(c)
    \/ RandomWriteData(c)
    \/ CloseClearCounter(c)
    \/ CloseClearRandom(c)

Next ==
    \/ \E c \in Conns : Accept(c) \/ Handler(c) \/ Callbacks(c)
    \/ Tick(MaxTime, MaxConns)

Spec == Init /\ [][Next]_vars

(***************************************************************************)
(* One connection observed over a longer time.                             *)
(***************************************************************************)
NextCadence ==
    \/ \E c \in {1} : Accept(c) \/ Handler(c) \/ Callbacks(c)
    \/ Tick(MaxCadenceTime, 1)

SpecCadence == Init /\ [][NextCadence]_vars

(***************************************************************************)
(* The same with the scheduling of the event loop: a callback that has     *)
(* started runs on, a timer that is due fires, and time passes.  Requests  *)
(* and disconnects are the peer's doing and are not forced.                *)
(***************************************************************************)
LoopStep(c) ==
    \/ Handler(c)
    \/ CounterFire(c) \/ CounterWriteEvent(c) \/ CounterWriteData(c)
    \/ RandomFire(c) \/ RandomWriteEvent(c) \/ RandomWriteData(c)
    \/ CloseClearRandom(c)

NextLive ==
    \/ \E c \in {1} : Accept(c) \/ Handler(c) \/ Callbacks(c)
    \/ Tick(MaxLiveTime, 1)

SpecLive ==
    /\ Init /\ [][NextLive]_vars
    /\ WF_vars(LoopStep(1))
    /\ WF_vars(Tick(MaxLiveTime, 1))

(***************************************************************************)
(* What the peer of a connection reads: the lines of the body, grouped     *)
(* into blocks of an event line, a data line and a blank line.             *)
(***************************************************************************)
Lines(c) == resBody[c].lines
Rest(c) == resBody[c].rest

EventNames == {"connected", "counter", "random"}
PayloadKey(name) ==
    CASE name = "connected" -> "\"message\""
      [] name = "counter" -> "\"count\""
      [] name = "random" -> "\"number\""
      [] OTHER -> "?"

IsEventLine(l) == Len(l) = 2 /\ l[1] = "event: " /\ l[2] \in EventNames
IsDataLine(l) ==
    /\ Len(l) = 6
    /\ l[1] = "data: " /\ l[2] = "{" /\ l[4] = ":" /\ l[6] = "}"

\* The number a decimal token denotes, -1 if it denotes none in NumberSpace.
NumberSpace == 0..(2 * RandomRange)
NumberTokens == [n \in NumberSpace |-> ToString(n)]
ParseNumber(tok) ==
    IF \E n \in NumberSpace : NumberTokens[n] = tok
    THEN CHOOSE n \in NumberSpace : NumberTokens[n] = tok
    ELSE -1

\* The blocks of three lines in l, as [event, key, value] records; "?" marks
\* what is not there.
BlocksOf(l) ==
    [i \in 1..(Len(l) \div 3) |->
        LET e == l[3 * i - 2]
            d == l[3 * i - 1]
        IN  [event |-> IF IsEventLine(e) THEN e[2] ELSE "?",
             key |-> IF IsDataLine(d) THEN d[3] ELSE "?",
             value |-> IF IsDataLine(d) THEN d[5] ELSE "?",
             blank |-> l[3 * i] = <<>>]]
Blocks(c) == BlocksOf(Lines(c))

Named(blocks, name) == SelectSeq(blocks, LAMBDA b : b.event = name)
Values(blocks, name) ==
    LET ev == Named(blocks, name)
    IN  [i \in 1..Len(ev) |-> ParseNumber(ev[i].value)]

HandlerLabels == {"L10", "L11", "L14", "L15", "L18", "L21", "L28", "L35"}

Phase(c) ==
    IF c > accepted THEN "NONE"
    ELSE IF closed[c] THEN "CLOSED"
    ELSE IF running = c /\ pc \in HandlerLabels THEN "OPENING"
    ELSE "STREAMING"

(***************************************************************************)
(* C1: on every connection the first event written is `connected` with a   *)
(* non-empty message, it is written exactly once (once the handler has     *)
(* passed line 15 there is one, before line 14 there is none), and hence   *)
(* no `counter` or `random` event precedes it.                             *)
(***************************************************************************)
C1_ConnectedFirstOnce ==
    \A c \in Conns :
        LET l == Lines(c)
            b == BlocksOf(l)
            n == Len(SelectSeq(l, LAMBDA x : x = <<"event: ", "connected">>))
        IN  /\ l # <<>> => l[1] = <<"event: ", "connected">>
            /\ n <= 1
            /\ (n = 0) = (c > accepted \/ At(c, "L10") \/ At(c, "L11")
                             \/ At(c, "L14"))
            /\ Phase(c) \in {"STREAMING", "CLOSED"} =>
                  /\ Len(b) >= 1
                  /\ b[1].event = "connected"
                  /\ b[1].key = "\"message\""
                  /\ b[1].value \notin {"?", "", "\"\""}
                  /\ b[1].blank

C1_Witness ==
    \E c \in Conns :
        LET b == Blocks(c)
        IN  /\ Len(Named(b, "counter")) >= 1
            /\ Len(Named(b, "random")) >= 1
            /\ Len(Named(b, "connected")) = 1
            /\ b[1].event = "connected"

(***************************************************************************)
(* C2: on a connection the n-th `counter` event carries count = n: the     *)
(* first is 1, each later one is its predecessor plus 1, whatever the      *)
(* interleaving with the random emitter.                                   *)
(***************************************************************************)
C2_CounterSequence ==
    \A c \in Conns :
        LET v == Values(Blocks(c), "counter")
        IN  /\ \A i \in 1..Len(v) : v[i] = i
            /\ LoopIdle => counter[CounterCell(c)] = Len(v)

C2_Witness ==
    LET b == Blocks(1)
    IN  /\ Len(Named(b, "counter")) >= 5
        /\ Len(Named(b, "random")) >= 2
        /\ ~closed[1]

TimerLabels == {"L23", "L24", "L30", "L31"}

(***************************************************************************)
(* C3: once 'close' has been emitted for a connection, no step starts or   *)
(* continues a timer callback of that connection and nothing more is       *)
(* written to its response.                                                *)
(***************************************************************************)
C3_NoEmissionAfterClose ==
    [][\A c \in Conns :
          closed[c] =>
              /\ resBody'[c] = resBody[c]
              /\ ~(running' = c /\ pc' \in TimerLabels)
              /\ counterInterval'[c].due = counterInterval[c].due
              /\ randomInterval'[c].due = randomInterval[c].due]_vars

\* A closed connection that had emitted, at a time when both of its timers
\* would have fired again.
C3_Witness ==
    \E c \in Conns :
        /\ closed[c] /\ LoopIdle
        /\ Len(Named(Blocks(c), "counter")) >= 1
        /\ counterInterval[c].due < now
        /\ randomInterval[c].due < now

(***************************************************************************)
(* C4: connections that are open together each get their own counter      *)
(* sequence 1, 2, 3, ...; a step of one connection (an emission, a close,  *)
(* its handler) changes neither the counter, nor the timers, nor the       *)
(* response of another connection.                                         *)
(***************************************************************************)
C4_IndependentConnections ==
    /\ [](\A c \in Conns :
            LET v == Values(Blocks(c), "counter")
            IN  \A i \in 1..Len(v) : v[i] = i)
    /\ [][\A c, d \in Conns :
            (c # d /\ (running = d \/ running' = d)) =>
                /\ counter'[CounterCell(c)] = counter[CounterCell(c)]
                /\ counterInterval'[c] = counterInterval[c]
                /\ randomInterval'[c] = randomInterval[c]
                /\ resBody'[c] = resBody[c]]_vars

C4_Witness ==
    /\ Phase(1) = "STREAMING" /\ Phase(2) = "STREAMING" /\ LoopIdle
    /\ Values(Blocks(1), "counter") = <<1, 2>>
    /\ Values(Blocks(2), "counter") = <<1>>

SSEHeaders ==
    [h \in HeaderNames |->
        CASE h = "Content-Type" -> "text/event-stream"
          [] h = "Cache-Control" -> "no-cache"
          [] h = "Connection" -> "keep-alive"]

PhaseMoves ==
    {<<"NONE", "OPENING">>, <<"OPENING", "STREAMING">>,
     <<"STREAMING", "CLOSED">>}

(***************************************************************************)
(* C5: a connection moves only (no request) -> OPENING -> STREAMING ->     *)
(* CLOSED; whenever anything has been written, the head was flushed with   *)
(* the event-stream content type, no caching and keep-alive; a connection  *)
(* becomes CLOSED only in the step in which 'close' is emitted; once       *)
(* CLOSED it stays CLOSED and its response does not grow.                  *)
(***************************************************************************)
C5_Lifecycle ==
    /\ [](\A c \in Conns :
            /\ (Lines(c) # <<>> \/ Rest(c) # <<>>) =>
                  (headersSent[c] /\ wireHeaders[c] = SSEHeaders)
            /\ Phase(c) \in {"NONE", "OPENING"} => Len(Lines(c)) <= 3)
    /\ [][\A c \in Conns :
            /\ Phase(c)' # Phase(c) => <<Phase(c), Phase(c)'>> \in PhaseMoves
            /\ (Phase(c)' = "CLOSED" /\ Phase(c) # "CLOSED") =>
                  (LoopIdle /\ closeListener[c] /\ running' = c
                   /\ pc' = "L37")
            /\ Phase(c) = "CLOSED" => resBody'[c] = resBody[c]]_vars

C5_Witness ==
    \E c \in Conns :
        /\ Phase(c) = "CLOSED" /\ LoopIdle
        /\ Len(Named(Blocks(c), "counter")) >= 2
        /\ wireHeaders[c] = SSEHeaders

DataLabelOf(name) ==
    CASE name = "connected" -> "L15"
      [] name = "counter" -> "L24"
      [] name = "random" -> "L31"
      [] OTHER -> "?"

(***************************************************************************)
(* C7: the body of a response is always a sequence of complete blocks --   *)
(* an event line, the data line of that same event, a blank line -- except *)
(* that, while a callback of the connection is between its two writes, the *)
(* event line of the block it is writing is last.                          *)
(***************************************************************************)
C7_CompleteBlocks ==
    \A c \in Conns :
        LET l == Lines(c)
            b == BlocksOf(l)
        IN  /\ Rest(c) = <<>>
            /\ \A i \in 1..Len(b) :
                  /\ b[i].event \in EventNames
                  /\ b[i].key = PayloadKey(b[i].event)
                  /\ b[i].blank
                  /\ IF b[i].event = "connected"
                     THEN b[i].value = "\"Connected to event stream\""
                     ELSE ParseNumber(b[i].value) >= 0
            /\ Len(l) % 3 \in {0, 1}
            /\ Len(l) % 3 = 1 =>
                  /\ IsEventLine(l[Len(l)])
                  /\ running = c
                  /\ pc = DataLabelOf(l[Len(l)][2])
            /\ (running = c /\ pc \in {"L15", "L24", "L31"}) => Len(l) % 3 = 1

\* A counter callback stands between its two writes while the random timer
\* of the same connection is due.
C7_Witness ==
    \E c \in Conns :
        /\ At(c, "L24")
        /\ Due(randomInterval[c])
        /\ Len(Lines(c)) % 3 = 1

(***************************************************************************)
(* C8: every `random` event carries an integer number with                 *)
(* 0 <= number < 100.                                                      *)
(***************************************************************************)
C8_RandomInRange ==
    \A c \in Conns :
        LET v == Values(Blocks(c), "random")
        IN  \A i \in 1..Len(v) : 0 <= v[i] /\ v[i] < 100

\* Two emissions of one connection with different numbers.
C8_Witness ==
    \E c \in Conns :
        LET v == Values(Blocks(c), "random")
        IN  Len(v) >= 2 /\ v[1] = 99 /\ v[2] = 0

NumTimers(c) ==
    (IF counterInterval[c].active THEN 1 ELSE 0)
    + (IF randomInterval[c].active THEN 1 ELSE 0)

RECURSIVE TimersUpTo(_)
TimersUpTo(c) == IF c = 0 THEN 0 ELSE NumTimers(c) + TimersUpTo(c - 1)
ActiveTimers == TimersUpTo(MaxConns)

Streaming == {c \in Conns : Phase(c) = "STREAMING"}

(***************************************************************************)
(* C10: between callbacks, every STREAMING connection owns exactly two     *)
(* active timers and every other connection none, so the number of active  *)
(* timers is twice the number of STREAMING connections and is zero again   *)
(* once all connections have closed.  (Inside a callback a STREAMING       *)
(* connection still owns two, and a CLOSED one owns none once its 'close'  *)
(* listener has returned.)                                                 *)
(***************************************************************************)
C10_TwoTimersPerOpenConnection ==
    /\ \A c \in Conns :
          /\ Phase(c) = "STREAMING" => NumTimers(c) = 2
          /\ Phase(c) = "NONE" => NumTimers(c) = 0
          /\ (Phase(c) = "CLOSED" /\ running # c) => NumTimers(c) = 0
    /\ LoopIdle => ActiveTimers = 2 * Cardinality(Streaming)
    /\ (LoopIdle /\ \A c \in Conns : c <= accepted => closed[c]) =>
          ActiveTimers = 0

C10_Witness ==
    /\ LoopIdle
    /\ accepted >= 2
    /\ \A c \in 1..accepted : closed[c]
    /\ \E c \in Conns : Len(Named(Blocks(c), "random")) >= 1
    /\ ActiveTimers = 0

Abs(x) == IF x < 0 THEN -x ELSE x
OpenForMs(c) == (now - openedAt[c]) * TickMs

(***************************************************************************)
(* C6: a connection that has been open for T seconds, T >= 10, has         *)
(* received T +- 1 `counter` events and T/2 +- 1 `random` events; one that *)
(* has been open for 5.5 seconds has received one `connected` event, the   *)
(* counter values 1, 2, 3, 4, 5 and two `random` events.                   *)
(***************************************************************************)
C6_Cadence ==
    \A c \in Conns :
        Phase(c) = "STREAMING" =>
            LET b == Blocks(c)
                n == Len(Named(b, "counter"))
                r == Len(Named(b, "random"))
            IN  /\ OpenForMs(c) >= 10000 =>
                      /\ Abs(1000 * n - OpenForMs(c)) <= 1000
                      /\ Abs(2000 * r - OpenForMs(c)) <= 2000
                /\ OpenForMs(c) = 5500 =>
                      /\ Len(Named(b, "connected")) = 1
                      /\ Values(b, "counter") = <<1, 2, 3, 4, 5>>
                      /\ r = 2

C6_Witness ==
    /\ Phase(1) = "STREAMING" /\ LoopIdle
    /\ OpenForMs(1) >= 11000
    /\ Len(Named(Blocks(1), "counter")) = 11

MaxEvents == (MaxLiveTime * TickMs) \div 1000

FitsBeforeEnd(n, periodMs) ==
    /\ accepted >= 1
    /\ openedAt[1] * TickMs + periodMs * n <= MaxLiveTime * TickMs

CounterReached(n) ==
    \/ closed[1]
    \/ /\ Len(Values(Blocks(1), "counter")) >= n
       /\ Values(Blocks(1), "counter")[n] = n

RandomReached(n) == closed[1] \/ Len(Named(Blocks(1), "random")) >= n

(***************************************************************************)
(* C9: while the peer does not disconnect the events keep coming: under    *)
(* the scheduling of SpecLive, a connection opened early enough for n      *)
(* periods of the counter timer to fit before the end of the observed time *)
(* is eventually closed or has its n-th `counter` event, with count n,     *)
(* written, for every n; likewise for the k-th `random` event.             *)
(***************************************************************************)
C9_EventsKeepComing ==
    \A n \in 1..MaxEvents :
        /\ FitsBeforeEnd(n, 1000) ~> CounterReached(n)
        /\ FitsBeforeEnd(n, 2000) ~> RandomReached(n)

C9_Witness ==
    /\ ~closed[1] /\ LoopIdle
    /\ now = MaxLiveTime
    /\ Len(Named(Blocks(1), "counter")) >= 4
    /\ Len(Named(Blocks(1), "random")) >= 2

(***************************************************************************)
(* The page ServerSentEventsDemo, src/client/src/pages/sse-demo.tsx.       *)
(*                                                                         *)
(* The browser's EventSource s is CONNECTING, OPEN or CLOSED.  The browser *)
(* announces a connection (open), reestablishes one that dropped (error,   *)
(* back to CONNECTING), fails one that cannot be used (error, CLOSED) and  *)
(* dispatches the events it reads off the stream; each of these is a task  *)
(* that does nothing once the EventSource is CLOSED.  A task first changes *)
(* readyState and then calls the listeners of the page, which run to       *)
(* completion before anything else happens: `dispatching` holds the event  *)
(* between the two steps.  The data of an event is the text of its data    *)
(* line, as tokens; what the stream may carry is not restricted to what    *)
(* the server of part_010 writes.                                          *)
(***************************************************************************)

(***************************************************************************)
(* JSON.parse of the text of a data line.  The result is an object with    *)
(* at most one field, the value null, or a SyntaxError.                    *)
(***************************************************************************)
Undefined == [t |-> "undefined", n |-> 0, s |-> ""]
Num(n) == [t |-> "number", n |-> n, s |-> ""]
Str(s) == [t |-> "string", n |-> 0, s |-> s]

KnownStrings == {"count", "number", "message", ConnectedMessage}
StringTokens == [k \in KnownStrings |-> JSONString(k)]
IsStringToken(tok) == \E k \in KnownStrings : StringTokens[k] = tok
Unquote(tok) == CHOOSE k \in KnownStrings : StringTokens[k] = tok
IsNumberToken(tok) == ParseNumber(tok) >= 0

ParseValue(tok) ==
    IF IsNumberToken(tok) THEN Num(ParseNumber(tok)) ELSE Str(Unquote(tok))

JSONparse(text) ==
    IF text = <<"null">>
    THEN [kind |-> "null", fields |-> {}]
    ELSE IF text = <<"{", "}">>
    THEN [kind |-> "object", fields |-> {}]
    ELSE IF /\ Len(text) = 5
            /\ text[1] = "{" /\ IsStringToken(text[2]) /\ text[3] = ":"
            /\ (IsNumberToken(text[4]) \/ IsStringToken(text[4]))
            /\ text[5] = "}"
    THEN [kind |-> "object",
          fields |-> {<<Unquote(text[2]), ParseValue(text[4])>>}]
    ELSE [kind |-> "SyntaxError", fields |-> {}]

\* data.key, for a data that is an object
Get(data, key) ==
    IF \E f \in data.fields : f[1] = key
    THEN (CHOOSE f \in data.fields : f[1] = key)[2]
    ELSE Undefined

(***************************************************************************)
(* The data lines a stream may carry.                                      *)
(***************************************************************************)
StreamValue == 3
ClientNumbers == {0, StreamValue}
EmptyObjectText == <<"{", "}">>
NullText == <<"null">>
TruncatedText == <<"{", JSONString("count"), ":">>

Payloads ==
    {CounterPayload(n) : n \in ClientNumbers}
        \cup {RandomPayload(n) : n \in ClientNumbers}
        \cup {ConnectedPayload, EmptyObjectText, NullText, TruncatedText}

ErrorMessage == "Connection error. Retrying..."
Idle == dispatching = NoEvent
Delivering(type) == dispatching.type = type

viewState == <<connectionStatus, viewCounter, randomNumber, sseError>>

(***************************************************************************)
(* The effect, lines 16-59.                                                *)
(***************************************************************************)
\* Lines 18-53: construct the EventSource, which starts to connect, and
\* register the listeners on it.
SetUp ==
    /\ Idle
    /\ eventSource = 0
    /\ created < MaxMounts
    /\ created' = created + 1
    /\ eventSource' = created + 1
    /\ readyState' = [readyState EXCEPT ![created + 1] = "CONNECTING"]
    /\ UNCHANGED <<dispatching, viewState, notifications, lastData, uncaught>>
    /\ UNCHANGED besidesSSE

\* Variant: the cleanup returns without closing the EventSource.
CleanUpKeepsOpen ==
    /\ Idle
    /\ eventSource # 0
    /\ eventSource' = 0
    /\ UNCHANGED <<created, readyState, dispatching, viewState, notifications,
                   lastData, uncaught>>
    /\ UNCHANGED besidesSSE

\* Lines 56-58: eventSource.close()
CleanUp ==
    /\ Idle
    /\ eventSource # 0
    /\ readyState' = [readyState EXCEPT ![eventSource] = "CLOSED"]
    /\ eventSource' = 0
    /\ UNCHANGED <<created, dispatching, viewState, notifications, lastData,
                   uncaught>>
    /\ UNCHANGED besidesSSE

(***************************************************************************)
(* The tasks of the EventSource constructed on line 18.                    *)
(***************************************************************************)
Fire(s, type, data) ==
    dispatching' = [src |-> s, type |-> type, data |-> data]

Notify(kind) ==
    /\ Len(notifications) < MaxNotifications
    /\ notifications' = Append(notifications, kind)

\* The connection is established: readyState becomes OPEN, `open` fires.
Announce(s) ==
    /\ Idle
    /\ readyState[s] = "CONNECTING"
    /\ readyState' = [readyState EXCEPT ![s] = "OPEN"]
    /\ Fire(s, "open", <<>>)
    /\ Notify("open")
    /\ UNCHANGED <<eventSource, created, viewState, lastData, uncaught>>
    /\ UNCHANGED besidesSSE

\* The connection dropped, or an attempt to connect failed for the network:
\* readyState becomes CONNECTING, `error` fires, the browser will retry.
Reestablish(s) ==
    /\ Idle
    /\ readyState[s] \in {"CONNECTING", "OPEN"}
    /\ readyState' = [readyState EXCEPT ![s] = "CONNECTING"]
    /\ Fire(s, "error", <<>>)
    /\ Notify("error")
    /\ UNCHANGED <<eventSource, created, viewState, lastData, uncaught>>
    /\ UNCHANGED besidesSSE

\* The response cannot be used (its status or its type): readyState becomes
\* CLOSED, `error` fires, the browser does not retry.
FailConnection(s) ==
    /\ Idle
    /\ readyState[s] = "CONNECTING"
    /\ readyState' = [readyState EXCEPT ![s] = "CLOSED"]
    /\ Fire(s, "error", <<>>)
    /\ Notify("error")
    /\ UNCHANGED <<eventSource, created, viewState, lastData, uncaught>>
    /\ UNCHANGED besidesSSE

\* A block of the stream is read: an event of its type fires with its data.
DispatchEvent(s, type, data) ==
    /\ Idle
    /\ readyState[s] = "OPEN"
    /\ Fire(s, type, data)
    /\ lastData' = [lastData EXCEPT ![type] = data]
    /\ UNCHANGED <<eventSource, created, readyState, viewState, notifications,
                   uncaught>>
    /\ UNCHANGED besidesSSE

(***************************************************************************)
(* The listeners, lines 20-53.  A listener runs when the browser delivers  *)
(* its event; the state it sets is the state of the component.  An         *)
(* exception that leaves a listener is reported by the browser (uncaught)  *)
(* and the listener's remaining statements do not run.                     *)
(***************************************************************************)
Delivered == dispatching' = NoEvent

\* Variant: onopen sets the status and leaves the error as it is.
OnOpenKeepsError ==
    /\ Delivering("open")
    /\ connectionStatus' = "Connected"
    /\ Delivered
    /\ UNCHANGED <<eventSource, created, readyState, viewCounter,
                   randomNumber, sseError, notifications, lastData, uncaught>>
    /\ UNCHANGED besidesSSE

\* Lines 21-24.
OnOpen ==
    /\ Delivering("open")
    /\ sseError' = Null
    /\ connectionStatus' = "Connected"
    /\ Delivered
    /\ UNCHANGED <<eventSource, created, readyState, viewCounter,
                   randomNumber, notifications, lastData, uncaught>>
    /\ UNCHANGED besidesSSE

\* Variant: the status of the tutorial's example, setStatus('disconnected').
StatusOnErrorDisconnected == "Disconnected"
StatusOnError == "Error - Retrying"

\* Variant: onerror also calls eventSource.close().
OnErrorCloses ==
    /\ Delivering("error")
    /\ sseError' = ErrorMessage
    /\ connectionStatus' = StatusOnError
    /\ readyState' = [readyState EXCEPT ![dispatching.src] = "CLOSED"]
    /\ Delivered
    /\ UNCHANGED <<eventSource, created, viewCounter, randomNumber,
                   notifications, lastData, uncaught>>
    /\ UNCHANGED besidesSSE

\* Variant: onerror also resets the two values to 0.
OnErrorResetsValues ==
    /\ Delivering("error")
    /\ sseError' = ErrorMessage
    /\ connectionStatus' = StatusOnError
    /\ viewCounter' = 0
    /\ randomNumber' = 0
    /\ Delivered
    /\ UNCHANGED <<eventSource, created, readyState, notifications, lastData,
                   uncaught>>
    /\ UNCHANGED besidesSSE

\* Lines 27-31.
OnError ==
    /\ Delivering("error")
    /\ sseError' = ErrorMessage
    /\ connectionStatus' = StatusOnError
    /\ Delivered
    /\ UNCHANGED <<eventSource, created, readyState, viewCounter,
                   randomNumber, notifications, lastData, uncaught>>
    /\ UNCHANGED besidesSSE

\* What `JSON.parse(event.data)` followed by `data.<field>` throws, "" if
\* nothing: the parse a SyntaxError, the read of a field of null a TypeError.
Throws(data) ==
    CASE data.kind = "SyntaxError" -> "SyntaxError"
      [] data.kind = "null" -> "TypeError"
      [] OTHER -> ""

Report(data) ==
    uncaught' = IF Throws(data) = "" THEN uncaught
                ELSE uncaught \cup {Throws(data)}

\* Lines 34-37: the message is logged.
OnConnected ==
    /\ Delivering("connected")
    /\ Report(JSONparse(dispatching.data))
    /\ Delivered
    /\ UNCHANGED <<eventSource, created, readyState, viewState,
                   notifications, lastData>>
    /\ UNCHANGED besidesSSE

\* Variant: `if (data.count)`, which is false of 0.
CountTruthy(data) ==
    Get(data, "count") # Undefined /\ Get(data, "count") # Num(0)
\* Line 42: data.count !== undefined
CountPresent(data) == Get(data, "count") # Undefined
\* Line 50: data.number !== undefined
NumberPresent(data) == Get(data, "number") # Undefined

\* Lines 40-45.
OnCounter ==
    /\ Delivering("counter")
    /\ LET data == JSONparse(dispatching.data)
       IN  /\ Report(data)
           /\ viewCounter' = IF Throws(data) = "" /\ CountPresent(data)
                             THEN Get(data, "count").n
                             ELSE viewCounter
    /\ Delivered
    /\ UNCHANGED <<eventSource, created, readyState, connectionStatus,
                   randomNumber, sseError, notifications, lastData>>
    /\ UNCHANGED besidesSSE

\* Variant: the random listener calls setCounter.
OnRandomSetsCounter ==
    /\ Delivering("random")
    /\ LET data == JSONparse(dispatching.data)
       IN  /\ Report(data)
           /\ viewCounter' = IF Throws(data) = "" /\ NumberPresent(data)
                             THEN Get(data, "number").n
                             ELSE viewCounter
    /\ Delivered
    /\ UNCHANGED <<eventSource, created, readyState, connectionStatus,
                   randomNumber, sseError, notifications, lastData>>
    /\ UNCHANGED besidesSSE

\* Lines 48-53.
OnRandom ==
    /\ Delivering("random")
    /\ LET data == JSONparse(dispatching.data)
       IN  /\ Report(data)
           /\ randomNumber' = IF Throws(data) = "" /\ NumberPresent(data)
                              THEN Get(data, "number").n
                              ELSE randomNumber
    /\ Delivered
    /\ UNCHANGED <<eventSource, created, readyState, connectionStatus,
                   viewCounter, sseError, notifications, lastData>>
    /\ UNCHANGED besidesSSE

(***************************************************************************)
(* The page and the browser.                                               *)
(***************************************************************************)
Listeners == OnOpen \/ OnError \/ OnConnected \/ OnCounter \/ OnRandom

\* The events the server of part_010 sends, for one value of the numbers.
WellFormedEvents ==
    {<<"connected", ConnectedPayload>>,
     <<"counter", CounterPayload(StreamValue)>>,
     <<"random", RandomPayload(StreamValue)>>}
\* Every pairing of a known event type with a data line.
AnyEvents == EventNames \X Payloads

Read(s, events) == \E e \in events : DispatchEvent(s, e[1], e[2])

Browser(s) ==
    \/ Announce(s)
    \/ Reestablish(s)
    \/ FailConnection(s)
    \/ Read(s, WellFormedEvents)

NextClient ==
    \/ SetUp
    \/ CleanUp
    \/ Listeners
    \/ \E s \in Sources : Browser(s)

SpecClient == Init /\ [][NextClient]_vars

(***************************************************************************)
(* One EventSource on a connection that stays up, reading every pairing of *)
(* an event type with a data line.                                         *)
(***************************************************************************)
NextEvents ==
    \/ SetUp
    \/ CleanUp
    \/ OnOpen \/ OnConnected \/ OnCounter \/ OnRandom
    \/ \E s \in {1} : Announce(s) \/ Read(s, AnyEvents)

SpecEvents == Init /\ [][NextEvents]_vars

(***************************************************************************)
(* The page ServerSentEventsDemo: what is checked of it.                   *)
(***************************************************************************)
LiveSources == {s \in Sources : readyState[s] \in {"CONNECTING", "OPEN"}}
Fired(kind) == \E i \in 1..Len(notifications) : notifications[i] = kind
LastNotification ==
    IF notifications = <<>> THEN "none" ELSE notifications[Len(notifications)]

(* C11: over any sequence of set-ups (mounts), opens, errors, reconnects   *)
(* and cleanups (unmounts), at most one EventSource of the page is live    *)
(* (CONNECTING or OPEN), and a live one is the EventSource of the effect   *)
(* that is currently set up.                                               *)
C11_AtMostOneLiveConnection ==
    /\ Cardinality(LiveSources) <= 1
    /\ LiveSources \subseteq {eventSource}

\* The second EventSource is open after the first was closed, and a
\* connection has dropped and been reestablished on the way.
C11_Witness ==
    /\ created >= 2
    /\ readyState[1] = "CLOSED"
    /\ readyState[2] = "OPEN"
    /\ Fired("error")
    /\ LastNotification = "open"

\* The step in which the listener of the event being delivered runs.
Handles(type) == Delivering(type) /\ dispatching' = NoEvent

(* C12: whenever the onopen handler runs, connectionStatus becomes         *)
(* 'Connected' and error becomes null, whatever they were before.          *)
C12_OpenSetsConnected ==
    [][Handles("open") =>
           connectionStatus' = "Connected" /\ sseError' = Null]_vars

\* onopen has run while the page showed an error.
C12_Witness ==
    /\ Idle
    /\ Len(notifications) >= 2
    /\ notifications[Len(notifications) - 1] = "error"
    /\ LastNotification = "open"
    /\ connectionStatus = "Connected"
    /\ sseError = Null

(* C13: when the onerror handler runs it sets connectionStatus to          *)
(* 'Error - Retrying' and error to a message and leaves the EventSource as *)
(* the browser has it (it does not close it); when the connection is       *)
(* announced again after an error, the status is 'Connected' again and the *)
(* error null.                                                             *)
C13_ErrorIsNotFatal ==
    [][/\ Handles("error") =>
            /\ connectionStatus' = "Error - Retrying"
            /\ sseError' = ErrorMessage
            /\ readyState' = readyState
       /\ (Handles("open") /\ Fired("error")) =>
            /\ connectionStatus' = "Connected"
            /\ sseError' = Null
            /\ readyState'[dispatching.src] = "OPEN"]_vars

\* The one EventSource of the page was open, lost its connection, retried
\* and is open again.
C13_Witness ==
    /\ Idle
    /\ created = 1
    /\ readyState[1] = "OPEN"
    /\ Len(notifications) >= 3
    /\ notifications[1] = "open"
    /\ notifications[Len(notifications) - 1] = "error"
    /\ LastNotification = "open"
    /\ connectionStatus = "Connected"

StatusAfter(kind) ==
    CASE kind = "open" -> "Connected"
      [] kind = "error" -> "Error - Retrying"
      [] OTHER -> "Disconnected"

(* C14: connectionStatus is 'Disconnected' at first and then only ever     *)
(* 'Connected' or 'Error - Retrying'; it never becomes 'Disconnected'      *)
(* again, and whenever no listener is running it is the status of the      *)
(* latest open or error notification.                                      *)
C14_StatusFollowsTransport ==
    /\ [](connectionStatus \in
              {"Disconnected", "Connected", "Error - Retrying"})
    /\ [](Idle => connectionStatus = StatusAfter(LastNotification))
    /\ [][connectionStatus # "Disconnected" =>
              connectionStatus' # "Disconnected"]_vars

\* The status went Connected, Error - Retrying, Connected, Error - Retrying.
C14_Witness ==
    /\ Idle
    /\ Len(notifications) >= 4
    /\ notifications[Len(notifications) - 3] = "open"
    /\ notifications[Len(notifications) - 2] = "error"
    /\ notifications[Len(notifications) - 1] = "open"
    /\ LastNotification = "error"
    /\ connectionStatus = "Error - Retrying"

\* The last event of the type carried an object with the field.
Carried(type, key) ==
    /\ lastData[type] # NoData
    /\ JSONparse(lastData[type]).kind = "object"
    /\ Get(JSONparse(lastData[type]), key) # Undefined
LastValue(type, key) == Get(JSONparse(lastData[type]), key)

MirrorsCounter ==
    Carried("counter", "count") =>
        viewCounter = LastValue("counter", "count").n
MirrorsRandom ==
    Carried("random", "number") =>
        randomNumber = LastValue("random", "number").n
\* Some piece of the view state holds the message.
MirrorsConnected ==
    Carried("connected", "message") =>
        \E piece \in {connectionStatus, sseError} :
            piece = LastValue("connected", "message").s

(* C15, as claimed: after any sequence of received events the view state   *)
(* mirrors the last-received payload of each of the three event types      *)
(* connected, counter and random.                                          *)
C15_MirrorsAllThree ==
    Idle => MirrorsCounter /\ MirrorsRandom /\ MirrorsConnected

(* C15, amended: after any sequence of received events, counter holds the  *)
(* count of the last counter event whenever that event carried one, and    *)
(* randomNumber the number of the last random event whenever that event    *)
(* carried one; the listener of connected changes no view state.           *)
C15_MirrorsCounterAndRandom ==
    /\ [](Idle => MirrorsCounter /\ MirrorsRandom)
    /\ [][Handles("connected") => UNCHANGED viewState]_vars

\* All three events were received, the counter with a count and the random
\* with the number 0 after another number.
C15_Witness ==
    /\ Idle
    /\ lastData["connected"] = ConnectedPayload
    /\ lastData["counter"] = CounterPayload(StreamValue)
    /\ lastData["random"] = RandomPayload(0)
    /\ viewCounter = StreamValue
    /\ randomNumber = 0
    /\ connectionStatus = "Connected"

\* The object that the data being delivered parses to.
DeliveredObject == JSONparse(dispatching.data)
DeliversObject(type) ==
    Handles(type) /\ DeliveredObject.kind = "object"

C17_CleanupClosesForGood ==
    /\ [][(eventSource # 0 /\ eventSource' = 0) =>
              readyState'[eventSource] = "CLOSED"]_vars
    /\ [](\A s \in 1..created : s # eventSource => readyState[s] = "CLOSED")
    /\ [](~Idle => dispatching.src = eventSource)
    /\ [][eventSource = 0 =>
              /\ UNCHANGED <<viewState, notifications, lastData>>
              /\ dispatching' = NoEvent]_vars

\* The page was connected and had received a counter event when it was
\* unmounted.
C17_Witness ==
    /\ eventSource = 0
    /\ created >= 1
    /\ readyState[1] = "CLOSED"
    /\ LastNotification = "open"
    /\ connectionStatus = "Connected"
    /\ viewCounter = StreamValue

\* The data being delivered to the counter or the random listener is not
\* valid JSON.
DeliversMalformed ==
    /\ Handles("counter") \/ Handles("random")
    /\ DeliveredObject.kind = "SyntaxError"

(* C18: if the data line of a counter or random event is not valid JSON,   *)
(* no exception leaves the listener of that event uncaught and the frame   *)
(* leaves the view state unchanged; the well-formed events that follow are *)
(* still handled (counter and randomNumber mirror them).                   *)
C18_MalformedFrameTolerated ==
    /\ [][DeliversMalformed => UNCHANGED <<viewState, uncaught>>]_vars
    /\ []((Idle /\ uncaught # {}) => MirrorsCounter /\ MirrorsRandom)

(***************************************************************************)
(* The page PollingDemo, src/client/src/pages/polling-demo.tsx.            *)
(*                                                                         *)
(* fetchData runs up to its first `await` when it is called, and the rest  *)
(* of it when the request it made settles: the response arrives (ok or     *)
(* not) or the request fails, and for an ok response the body is parsed or *)
(* fails to parse.  Each of these is one step; a request may settle at any *)
(* time after it was made, or never.  The clock is the clock `now` of the  *)
(* timers above, and the interval of line 28 fires in the tick in which it *)
(* falls due.  pollData holds the number of the request whose response it  *)
(* shows, 0 for null.                                                      *)
(***************************************************************************)
MaxPollTime == 9
PollingIntervalMs == 2000

NetworkErrorMessage == "Network error"
FetchFailedMessage == "Failed to fetch"
ParseFailedMessage == "Unexpected token"

Requests == 1..Len(requests)
Settle(k, state, outcome) ==
    requests' = [requests EXCEPT ![k].state = state,
                                 ![k].outcome = outcome,
                                 ![k].late = ~(pollPhase = "mounted")]

\* Variant: fetchData does not call setError(null).
FetchDataCallKeepsError ==
    /\ loading' = TRUE
    /\ UNCHANGED pollError
    /\ requests' = Append(requests, [state |-> "fetching", at |-> now,
                                     outcome |-> "", late |-> FALSE])

\* Lines 14-17: fetchData up to `await fetch("/api/polling")`.
FetchDataCall ==
    /\ loading' = TRUE
    /\ pollError' = Null
    /\ requests' = Append(requests, [state |-> "fetching", at |-> now,
                                     outcome |-> "", late |-> FALSE])

\* Lines 21-25 after a throw: the catch and the finally.
CatchFinally(message) ==
    /\ pollError' = IF isMounted THEN message ELSE pollError
    /\ loading' = IF isMounted THEN FALSE ELSE loading
    /\ UNCHANGED pollData

\* Lines 12-28: the effect.
Mount ==
    /\ pollPhase = "initial"
    /\ pollPhase' = "mounted"
    /\ isMounted' = TRUE
    /\ FetchDataCall
    /\ interval' = SetInterval(PollingIntervalMs)
    /\ mountedAt' = now
    /\ UNCHANGED pollData
    /\ UNCHANGED besidesPolling

\* Variant: a tick of the interval is skipped while a request is in flight.
IntervalFireUnlessInFlight ==
    /\ Due(interval)
    /\ interval' = Reschedule(interval, PollingIntervalMs)
    /\ IF \E k \in Requests : requests[k].state # "done"
       THEN UNCHANGED <<loading, pollError, requests>>
       ELSE FetchDataCall
    /\ UNCHANGED <<pollPhase, isMounted, pollData, mountedAt>>
    /\ UNCHANGED besidesPolling

\* Line 28: the interval fires and calls fetchData.
IntervalFire ==
    /\ Due(interval)
    /\ interval' = Reschedule(interval, PollingIntervalMs)
    /\ FetchDataCall
    /\ UNCHANGED <<pollPhase, isMounted, pollData, mountedAt>>
    /\ UNCHANGED besidesPolling

\* Line 17 throws: the request failed for the network.
FetchRejects(k) ==
    /\ requests[k].state = "fetching"
    /\ Settle(k, "done", "error")
    /\ CatchFinally(FetchFailedMessage)
    /\ UNCHANGED <<pollPhase, isMounted, interval, mountedAt>>
    /\ UNCHANGED besidesPolling

\* Lines 17-18 with a response that is not ok: `throw new Error(...)`.
ResponseNotOk(k) ==
    /\ requests[k].state = "fetching"
    /\ Settle(k, "done", "error")
    /\ CatchFinally(NetworkErrorMessage)
    /\ UNCHANGED <<pollPhase, isMounted, interval, mountedAt>>
    /\ UNCHANGED besidesPolling

\* Lines 17-19 with an ok response: up to `await res.json()`.
ResponseOk(k) ==
    /\ requests[k].state = "fetching"
    /\ Settle(k, "parsing", "")
    /\ UNCHANGED <<pollPhase, isMounted, interval, pollData, loading,
                   pollError, mountedAt>>
    /\ UNCHANGED besidesPolling

\* Lines 19-20 and 24: the body is parsed.
JsonResolves(k) ==
    /\ requests[k].state = "parsing"
    /\ Settle(k, "done", "ok")
    /\ pollData' = IF isMounted THEN k ELSE pollData
    /\ loading' = IF isMounted THEN FALSE ELSE loading
    /\ UNCHANGED <<pollPhase, isMounted, interval, pollError, mountedAt>>
    /\ UNCHANGED besidesPolling

\* Line 19 throws: the body is not JSON.
JsonRejects(k) ==
    /\ requests[k].state = "parsing"
    /\ Settle(k, "done", "error")
    /\ CatchFinally(ParseFailedMessage)
    /\ UNCHANGED <<pollPhase, isMounted, interval, mountedAt>>
    /\ UNCHANGED besidesPolling

\* Variant: the cleanup clears the interval and leaves isMounted true.
UnmountKeepsMounted ==
    /\ pollPhase = "mounted"
    /\ pollPhase' = "unmounted"
    /\ interval' = ClearInterval(interval)
    /\ UNCHANGED <<isMounted, requests, pollData, loading, pollError,
                   mountedAt>>
    /\ UNCHANGED besidesPolling

\* Lines 29-32: the cleanup.
Unmount ==
    /\ pollPhase = "mounted"
    /\ pollPhase' = "unmounted"
    /\ isMounted' = FALSE
    /\ interval' = ClearInterval(interval)
    /\ UNCHANGED <<requests, pollData, loading, pollError, mountedAt>>
    /\ UNCHANGED besidesPolling

\* Time passes, unless the interval is due.
PollTick ==
    /\ now < MaxPollTime
    /\ ~Due(interval)
    /\ now' = now + 1
    /\ UNCHANGED <<routeVars, sseVars, pollVars, routingVars, linkVars>>

Settles(k) ==
    \/ FetchRejects(k)
    \/ ResponseNotOk(k)
    \/ ResponseOk(k)
    \/ JsonResolves(k)
    \/ JsonRejects(k)

NextPolling ==
    \/ Mount
    \/ IntervalFire
    \/ Unmount
    \/ PollTick
    \/ \E k \in Requests : Settles(k)

SpecPolling == Init /\ [][NextPolling]_vars

(***************************************************************************)
(* The page PollingDemo: what is checked of it.                            *)
(***************************************************************************)
SinceMountMs == (now - mountedAt) * TickMs

(* C19: the polling page makes no request before it mounts, one request in *)
(* the tick in which it mounts and one more every 2000 ms after that while *)
(* it is mounted, whether the earlier requests succeeded, failed or are    *)
(* still in flight: the k-th request is made 2000 * (k - 1) ms after the   *)
(* mount, and a mounted page whose interval is not due at this instant has *)
(* made 1 + (time since mount) / 2000 requests.                            *)
C19_PollsEveryTwoSeconds ==
    /\ pollPhase = "initial" => requests = <<>>
    /\ \A k \in Requests :
           (requests[k].at - mountedAt) * TickMs = 2000 * (k - 1)
    /\ (pollPhase = "mounted" /\ ~Due(interval)) =>
           Len(requests) = 1 + SinceMountMs \div 2000

\* The third request was made while the second was still in flight and
\* after the first had failed, and it has succeeded.
C19_Witness ==
    /\ pollPhase = "mounted"
    /\ Len(requests) >= 3
    /\ requests[1].outcome = "error"
    /\ requests[2].state = "fetching"
    /\ requests[3].outcome = "ok"

(* C20: once the polling page has unmounted its interval is cleared and no *)
(* further request is made, and a request that was in flight at the        *)
(* unmount changes none of data, error and loading when it settles.        *)
C20_NothingAfterUnmount ==
    /\ [](pollPhase = "unmounted" => ~interval.active)
    /\ [][pollPhase = "unmounted" =>
              /\ Len(requests') = Len(requests)
              /\ UNCHANGED <<pollData, pollError, loading>>]_vars

\* Two requests were in flight at the unmount; since then one has brought
\* its response and the other has failed.
C20_Witness ==
    /\ pollPhase = "unmounted"
    /\ \E j, k \in Requests :
           /\ requests[j].late /\ requests[j].outcome = "ok"
           /\ requests[k].late /\ requests[k].outcome = "error"
    /\ now > mountedAt + Ticks(PollingIntervalMs)

(***************************************************************************)
(* The server again: the two emitters of a connection.                     *)
(***************************************************************************)
\* A step of the callback of randomInterval (of counterInterval) of c: the
\* step that starts it or a step from one of its statements.
RandomStep(c) ==
    \/ running = 0 /\ running' = c /\ pc' = "L30"
    \/ running = c /\ pc \in {"L30", "L31"}
CounterStep(c) ==
    \/ running = 0 /\ running' = c /\ pc' = "L23"
    \/ running = c /\ pc \in {"L23", "L24"}

\* The step completes a block of the given event and writes nothing else.
Completes(c, name) ==
    LET before == Blocks(c)
        after == BlocksOf(resBody'[c].lines)
    IN  /\ Len(after) = Len(before) + 1
        /\ after[Len(after)].event = name
        /\ \A i \in 1..Len(before) : after[i] = before[i]

(* C24: the two emitters of a connection are independent.  A firing of the *)
(* random emitter leaves the counter of the connection as it is and writes *)
(* one random event and nothing else; a firing of the counter emitter      *)
(* writes one counter event and nothing else; neither firing cancels or    *)
(* reschedules the timer of the other emitter.                             *)
C24_EmittersIndependent ==
    [][\A c \in Conns :
          /\ RandomStep(c) =>
                /\ counter' = counter
                /\ counterInterval' = counterInterval
                /\ (pc = "L31") => Completes(c, "random")
                /\ (pc # "L31") => BlocksOf(resBody'[c].lines) = Blocks(c)
          /\ CounterStep(c) =>
                /\ randomInterval' = randomInterval
                /\ (pc = "L24") => Completes(c, "counter")
                /\ (pc # "L24") => BlocksOf(resBody'[c].lines) = Blocks(c)]_vars

\* The random emitter of connection 1 has just written its first event, the
\* counter emitter has written one event before it, and both timers run on.
C24_Witness ==
    /\ LoopIdle
    /\ accepted >= 1
    /\ Len(Blocks(1)) = 3
    /\ Blocks(1)[3].event = "random"
    /\ counter[CounterCell(1)] = 1
    /\ counterInterval[1].active /\ Due(counterInterval[1])
    /\ randomInterval[1].active /\ ~Due(randomInterval[1])

\* The number of blocks of the event among the first n blocks.
CountOf(blocks, name, n) ==
    Cardinality({i \in 1..n : blocks[i].event = name})

C23_ValuesChangedByOwnListener ==
    [][/\ viewCounter' # viewCounter => Handles("counter")
       /\ randomNumber' # randomNumber => Handles("random")
       /\ (Handles("open") \/ Handles("error") \/ Handles("connected")) =>
              UNCHANGED <<viewCounter, randomNumber>>]_vars

\* The connection dropped after a connected, a counter and a random event:
\* the page shows the error and the values of the two events.
C23_Witness ==
    /\ Idle
    /\ connectionStatus = "Error - Retrying"
    /\ lastData["connected"] = ConnectedPayload
    /\ viewCounter = StreamValue
    /\ randomNumber = StreamValue

(* C26: in every reachable state, after any sequence of open, error and    *)
(* named events, error is null exactly when connectionStatus is            *)
(* 'Disconnected' or 'Connected', and a message exactly when it is         *)
(* 'Error - Retrying'.                                                     *)
C26_ErrorIffRetrying ==
    /\ sseError = Null <=> connectionStatus \in {"Disconnected", "Connected"}
    /\ sseError # Null <=> connectionStatus = "Error - Retrying"

\* The page is connected again after an error, has received an event since
\* and shows no error.
C26_Witness ==
    /\ Idle
    /\ Fired("error")
    /\ LastNotification = "open"
    /\ lastData["counter"] # NoData
    /\ connectionStatus = "Connected"
    /\ sseError = Null
    /\ viewCounter = StreamValue

(***************************************************************************)
(* The page PollingDemo again.                                             *)
(***************************************************************************)
InFlight == {k \in Requests : requests[k].state # "done"}
\* The step in which a request fails, and the step in which one is made.
FailStep ==
    \E k \in InFlight :
        requests'[k].state = "done" /\ requests'[k].outcome = "error"
StartStep == Len(requests') = Len(requests) + 1

(* C25: in the mounted polling page a request that fails (the network, a   *)
(* status that is not ok, a body that does not parse) sets error to a      *)
(* message and leaves data as it was; every request sets error to null     *)
(* when it is made, so an error is shown at most until the next request    *)
(* is made.                                                                *)
C25_ErrorUntilNextPoll ==
    [][/\ (FailStep /\ pollPhase = "mounted") =>
              /\ pollError' \in {FetchFailedMessage, NetworkErrorMessage,
                                 ParseFailedMessage}
              /\ pollData' = pollData
       /\ StartStep => pollError' = Null]_vars

\* The first request brought data, the second failed: the page shows the
\* error and still the data of the first.
C25_Witness ==
    /\ pollPhase = "mounted"
    /\ Len(requests) = 2
    /\ requests[1].outcome = "ok"
    /\ requests[2].outcome = "error"
    /\ pollData = 1
    /\ pollError = NetworkErrorMessage

(* C29: while the polling page is mounted, loading is true whenever at     *)
(* least one request is in flight, also when a request takes longer than   *)
(* the interval and overlaps the next one.                                 *)
C29_LoadingWhileInFlight ==
    (pollPhase = "mounted" /\ InFlight # {}) => loading

\* The requests that brought their response while the page was mounted.
Succeeded ==
    {k \in Requests : requests[k].outcome = "ok" /\ ~requests[k].late}

(* C30: the data that the polling page shows is the response to the most   *)
(* recently made request among those that have succeeded; the response to  *)
(* an earlier request that arrives late does not replace the data of a     *)
(* request made after it.                                                  *)
C30_LatestResponseShown ==
    Succeeded # {} =>
        pollData = CHOOSE k \in Succeeded : \A j \in Succeeded : j <= k

(***************************************************************************)
(* The application: the Router of part_000 with the page PollingDemo and   *)
(* the routes of the server.  The effect of PollingDemo runs once Router   *)
(* renders the page and its cleanup once Router renders another one.  The  *)
(* requests of the page reach registerRoutes, which routes them; a request *)
(* that it passes on is answered by what is installed after it, with a     *)
(* status that is not ok or with a body that is not the JSON of a route.   *)
(* ServerSentEventsDemo is not among the components that Router renders.   *)
(***************************************************************************)
PollingPath == "/api/polling"

\* The location changes and the Switch renders.
Navigate(path) ==
    /\ path # location
    /\ location' = path
    /\ page' = Switch(path)
    /\ UNCHANGED routed
    /\ UNCHANGED <<serverVars, sseVars, pollVars, linkVars>>

\* The k-th request of the page reaches the server.
ServerReceives(k) ==
    /\ requests[k].state = "fetching"
    /\ \A d \in {"handler", "next"} : <<k, d>> \notin routed
    /\ routed' = routed \cup {<<k, Dispatch("GET", PollingPath)>>}
    /\ UNCHANGED <<location, page>>
    /\ UNCHANGED <<serverVars, sseVars, pollVars, linkVars>>

PassedOn(k) == <<k, "next">> \in routed

\* The Switch has rendered and the effect or the cleanup of PollingDemo
\* that the render calls for has not run yet; it runs before anything else.
EffectsPending ==
    \/ page = "PollingDemo" /\ pollPhase = "initial"
    \/ page # "PollingDemo" /\ pollPhase = "mounted"

Settled == ~EffectsPending

NextApp ==
    \/ page = "PollingDemo" /\ Mount
    \/ page # "PollingDemo" /\ Unmount
    \/ \E path \in Paths : Settled /\ Navigate(path)
    \/ Settled /\ IntervalFire
    \/ Settled /\ PollTick
    \/ \E k \in Requests : Settled /\ ServerReceives(k)
    \/ \E k \in Requests : Settled /\ FetchRejects(k)
    \/ \E k \in Requests : Settled /\ PassedOn(k) /\ ResponseNotOk(k)
    \/ \E k \in Requests : Settled /\ PassedOn(k) /\ ResponseOk(k)
    \/ \E k \in Requests : Settled /\ JsonRejects(k)

SpecApp == Init /\ [][NextApp]_vars

(* C21: every GET /api/polling that reaches the server is answered by a    *)
(* route of registerRoutes (with a JSON object that holds the current      *)
(* timestamp and a random integer in [0, 10000), the response that the     *)
(* polling page reads).                                                    *)
C21_PollingEndpointAnswers ==
    \A r \in routed : r[2] = "handler"

(* C22: at the path /sse-demo the Router renders the page                  *)
(* ServerSentEventsDemo, not the not-found page.                           *)
C22_SseDemoRouted ==
    location = "/sse-demo" => page = "ServerSentEventsDemo"


(***************************************************************************)
(* The page ServerSentEventsDemo on the server of part_010: the requests   *)
(* of its EventSource are the connections that the route handler serves,   *)
(* and the events it dispatches are the blocks that the handler and the    *)
(* timers of the connection have written.  One EventSource is followed     *)
(* over its reconnects.                                                    *)
(***************************************************************************)
MaxStreamTime == 6

\* The server has accepted a request whose response the browser has not
\* seen yet.
Outstanding == accepted > attached

\* The peer of connection c is there: c serves the EventSource of the page.
LinkedTo(c) ==
    /\ eventSource # 0
    /\ readyState[eventSource] # "CLOSED"
    /\ IF Outstanding THEN c = accepted ELSE up /\ c = attached

\* Line 18 and the reconnects of the EventSource: GET /api/events.
Request(c) ==
    /\ eventSource # 0
    /\ readyState[eventSource] = "CONNECTING"
    /\ ~up
    /\ ~Outstanding
    /\ Accept(c)

\* The head of the response arrives: readyState becomes OPEN, `open` fires.
Open(s) ==
    /\ Idle
    /\ s = eventSource
    /\ readyState[s] = "CONNECTING"
    /\ Outstanding
    /\ headersSent[accepted]
    /\ attached' = accepted
    /\ up' = TRUE
    /\ delivered' = 0
    /\ readyState' = [readyState EXCEPT ![s] = "OPEN"]
    /\ Fire(s, "open", <<>>)
    /\ Notify("open")
    /\ UNCHANGED <<eventSource, created, viewState, lastData, uncaught>>
    /\ UNCHANGED <<serverVars, pollVars, routingVars>>

\* The transport of the connection fails: readyState becomes CONNECTING,
\* `error` fires, and the browser will send a new request.  A connection
\* that fails before the browser has seen the head of its response is taken
\* as one that fails right after it: the server cannot tell the two apart,
\* and the page differs by the `open` it is given.
Drop(s) ==
    /\ Idle
    /\ s = eventSource
    /\ readyState[s] \in {"CONNECTING", "OPEN"}
    /\ up
    /\ attached' = accepted
    /\ up' = FALSE
    /\ readyState' = [readyState EXCEPT ![s] = "CONNECTING"]
    /\ Fire(s, "error", <<>>)
    /\ Notify("error")
    /\ UNCHANGED <<eventSource, created, viewState, lastData, uncaught>>
    /\ UNCHANGED <<serverVars, pollVars, routingVars, delivered>>

\* The field of a line of the stream: its name up to ": " and its value.
FieldName(l) == IF l = <<>> THEN "" ELSE Head(l)
FieldValue(l) == IF l = <<>> THEN <<>> ELSE Tail(l)

\* The next block of the connection is complete: an event of the type of
\* its `event` line fires with the value of its `data` line.
Receive(s) ==
    /\ Idle
    /\ s = eventSource
    /\ readyState[s] = "OPEN"
    /\ up
    /\ 3 * (delivered + 1) <= Len(Lines(attached))
    /\ LET e == Lines(attached)[3 * delivered + 1]
           d == Lines(attached)[3 * delivered + 2]
           type == IF FieldName(e) = "event: " /\ Len(e) = 2
                   THEN e[2] ELSE "message"
           data == IF FieldName(d) = "data: " THEN FieldValue(d) ELSE <<>>
       IN  /\ type \in EventNames
           /\ Fire(s, type, data)
           /\ lastData' = [lastData EXCEPT ![type] = data]
    /\ delivered' = delivered + 1
    /\ UNCHANGED <<eventSource, created, readyState, viewState, notifications,
                   uncaught>>
    /\ UNCHANGED <<serverVars, pollVars, routingVars, attached, up>>

\* The server learns that the peer of connection c has gone.
PeerGone(c) ==
    /\ c <= accepted
    /\ ~LinkedTo(c)
    /\ CloseClearCounter(c)

\* A callback of the server is short against the network and the browser:
\* a step of the browser falls between two callbacks, never inside one.
\* Time is counted from the first request of the EventSource.
NextStream ==
    \/ LoopIdle /\ created = 0 /\ SetUp
    \/ LoopIdle /\ OnOpen
    \/ LoopIdle /\ OnError
    \/ LoopIdle /\ OnConnected
    \/ LoopIdle /\ OnCounter
    \/ LoopIdle /\ OnRandom
    \/ \E s \in Sources : LoopIdle /\ Open(s)
    \/ \E s \in Sources : LoopIdle /\ Drop(s)
    \/ \E s \in Sources : LoopIdle /\ Receive(s)
    \/ \E c \in Conns : Request(c)
    \/ \E c \in Conns : Handler(c)
    \/ \E c \in Conns : CounterFire(c)
    \/ \E c \in Conns : CounterWriteEvent(c)
    \/ \E c \in Conns : CounterWriteData(c)
    \/ \E c \in Conns : RandomFire(c) /\ random' = RandomSample(0)
    \/ \E c \in Conns : RandomWriteEvent(c)
    \/ \E c \in Conns : RandomWriteData(c)
    \/ \E c \in Conns : PeerGone(c)
    \/ \E c \in Conns : CloseClearRandom(c)
    \/ accepted > 0 /\ Tick(MaxStreamTime, MaxConns)

SpecStream == Init /\ [][NextStream]_vars

\* The blocks of the connection that the EventSource has read so far.
Received == SubSeq(Blocks(attached), 1, delivered)

\* The event being delivered is the first `counter` of a connection that
\* the EventSource was given when it reconnected.
FirstCounterAfterReconnect ==
    /\ Delivering("counter")
    /\ attached > 1
    /\ CountOf(Received, "counter", delivered) = 1

(* C28: when the EventSource reconnects after a transport error, the       *)
(* server serves it a new connection whose counter starts at 1 and which   *)
(* replays nothing, so the listener that handles the first `counter` event *)
(* of the new connection sets the displayed counter to 1, whatever it      *)
(* displayed before.                                                       *)
C28_CounterRestartsAfterReconnect ==
    [][(FirstCounterAfterReconnect /\ dispatching' = NoEvent)
          => viewCounter' = 1]_vars

\* The page displays 2, from the first connection, and the first `counter`
\* of the second connection is being delivered to its listener.
C28_Witness ==
    /\ FirstCounterAfterReconnect
    /\ attached = 2
    /\ viewCounter = 2
    /\ "error" \in {notifications[i] : i \in 1..Len(notifications)}

====
